---- MODULE Spec2Model ----
(***************************************************************************)
(* A model of async-deethon: the Session (token refresh, private API,      *)
(* search, download with bitrate fallback, album download), the Track and  *)
(* Album identity caches, and the URL dispatch of Session.download.        *)
(*                                                                         *)
(* Every coroutine is a task.  One action is one run of a coroutine from   *)
(* one suspension point (an awaited network response) to the next: asyncio *)
(* runs that stretch without interleaving.                                 *)
(***************************************************************************)
EXTENDS Integers, Sequences, FiniteSets, TLC

\* ------------------------------------------------------------- bounds
TimeStep == 3600
MaxTicks == 2
MaxTrackId == 2
MaxAlbumLen == 2
MaxCalls == 2

\* ---------------------------------------------------------- constants
SESSION_TTL == 3600

METHOD_GET_USER == "deezer.getUserData"
METHOD_PAGE_TRACK == "deezer.pageTrack"
Methods == {METHOD_GET_USER, METHOD_PAGE_TRACK}

StartTime == TimeStep
MaxTime == StartTime + MaxTicks * TimeStep

NoToken == ""
CsrfTokens == {"csrf1", "csrf2"}
ArlToken == "arl"

ANONYMOUS == 0
UserIds == {ANONYMOUS, 7}

TrackIds == 1 .. MaxTrackId
AlbumIds == {1}
Main == 1
Children == 2 .. (1 + MaxAlbumLen)
TaskIds == {Main} \cup Children

Bitrates == {"FLAC", "MP3_320", "MP3_256", "MP3_128", "MP3", "None"}

\* ------------------------------------------------------------ helpers
RECURSIVE SeqsUpTo(_, _)
SeqsUpTo(S, n) ==
    IF n = 0 THEN {<<>>}
    ELSE LET shorter == SeqsUpTo(S, n - 1)
         IN  shorter \cup {Append(s, x) : s \in {q \in shorter : Len(q) = n - 1}, x \in S}

Take(s, n) == SubSeq(s, 1, n)
Drop(s, n) == SubSeq(s, n + 1, Len(s))

\* -------------------------------------------------------------- state
VARIABLES
    arl_token,        \* Session._arl_token
    csrf_token,       \* Session._csrf_token
    session_expires,  \* Session._session_expires
    http_session,     \* Session._session: its state and which ClientSession it is
    now,              \* time.time()
    track_cache,      \* Track._cache: track id -> reference (0: no entry)
    tracks,           \* the Track objects, by reference
    held,             \* the references Track(...) has returned so far
    task,             \* the coroutines
    calls             \* top-level calls made so far

vars == <<arl_token, csrf_token, session_expires, http_session, now,
          track_cache, tracks, held, task, calls>>

session_vars == <<arl_token, csrf_token, session_expires, http_session>>
entity_vars == <<track_cache, tracks, held>>

\* ------------------------------------------------------ records
NoUrl == [origin |-> <<>>, quality |-> "", id |-> 0, version |-> <<>>,
          host |-> <<>>, hashs |-> <<>>]

\* An upstream request, as the transport sees it.
Request(kind, method, token, id, url) ==
    [kind |-> kind, method |-> method, token |-> token, id |-> id, url |-> url]

NoRequest == Request("", "", "", 0, NoUrl)

\* The coroutine posts a request and awaits the answer.
Post(rec, request) == [rec EXCEPT !.req = request, !.posts = @ + 1]

NoError == [name |-> "", arg |-> <<>>]
Error(name, arg) == [name |-> name, arg |-> arg]

Unset == <<-1>>
Pending == <<-1>>
NoTrack == [id |-> 0, rank |-> 0, md5_origin |-> Unset, media_version |-> Unset]

IdleTask ==
    [entry |-> "", op |-> "idle", pc |-> "idle", parent |-> 0,
     method |-> "", req |-> NoRequest, posts |-> 0, user |-> [kind |-> "none"],
     apiResult |-> [kind |-> "none"],
     error |-> NoError,
     track |-> 0, uncached |-> FALSE, requested |-> "", bitrate |-> "", quality |-> "",
     attempts |-> <<>>, streams |-> 0, callback |-> FALSE,
     total |-> 0, current |-> 0, buffer |-> <<>>, body |-> <<>>, scheduled |-> <<>>,
     url |-> <<>>, mode |-> <<>>, content_id |-> 0, info |-> [kind |-> "none"],
     album_tracks |-> <<>>, finished |-> <<>>, albumResult |-> <<>>,
     albums_count |-> 0, songs_limit |-> 0, albums |-> Pending, found |-> Pending,
     searchResult |-> [albums |-> <<>>, tracks |-> <<>>]]

Terminal(rec) == rec.pc \in {"done", "failed"}

\* ------------------------------------------------------ the upstream
\* What the provider may answer.  The model leaves the choice open.
UserResponses ==
    [kind : {"user"}, USER_ID : UserIds, checkForm : CsrfTokens]

ServerMd5(id) == <<97, 48 + id>>
ServerVersion(id) == <<49>>
PageTrackResponse(id) ==
    [kind |-> "track", MD5_ORIGIN |-> ServerMd5(id), MEDIA_VERSION |-> ServerVersion(id)]
ErrorEnvelope == [kind |-> "error"]

Ranks == {1, 2}
TrackInfos == [kind : {"info"}, id : TrackIds, rank : Ranks]
ErrorPayload ==
    [kind |-> "error", error |-> [type |-> "DataException", message |-> "no data", code |-> 800]]

CodeByte(quality) ==
    CASE quality = "9" -> 57
      [] quality = "3" -> 51
      [] quality = "5" -> 53
      [] OTHER -> 49
\* The bytes the content server holds for a stream URL.
ServerAsset(url) == <<url.id, CodeByte(url.quality)>>

\* ------------------------------------------------------------ Session
\* Session._session: state is "none" (None), "open" or "closed"; made counts
\* the ClientSessions constructed so far, so it tells one from the next.
NoTransport == [state |-> "none", made |-> 0]

\* update_requests_session that does not look at closed.
update_requests_sessionNoneOnly(s) ==
    IF s.state = "none" THEN [state |-> "open", made |-> s.made + 1] ELSE s

\* Session.update_requests_session
update_requests_session(s) ==
    IF s.state = "none" \/ s.state = "closed"
    THEN [state |-> "open", made |-> s.made + 1]
    ELSE s

\* Session.get_api, the condition under which it refreshes first
NeedsRefreshTimeOnly(method, token, expires, time) ==
    method # METHOD_GET_USER /\ expires > time

NeedsRefresh(method, token, expires, time) ==
    method # METHOD_GET_USER /\ (token = NoToken \/ expires > time)

\* Session.get_api, the request it posts
ApiRequest(method, token, id) == Request("api", method, token, id, NoUrl)

\* Session.get_api from its entry to its first suspension: either the identity
\* lookup of _refresh_session is posted, or the request itself.
GetApiBegin(rec, method, id) ==
    LET r == [rec EXCEPT !.method = method, !.content_id = id]
    IN  IF NeedsRefresh(method, csrf_token, session_expires, now)
        THEN Post([r EXCEPT !.pc = "refresh_wait"], ApiRequest(METHOD_GET_USER, csrf_token, 0))
        ELSE Post([r EXCEPT !.pc = "api_wait"], ApiRequest(method, csrf_token, id))

\* Session._refresh_session, the anonymous-user test
IsAnonymousNever(user) == FALSE

IsAnonymous(user) == user.USER_ID = ANONYMOUS

\* -------------------------------------------------- asyncio.gather
\* The buffers of a gather, in the order of its coroutines.
GatherResultsByCompletion(tk, p) ==
    [k \in 1 .. Len(tk[p].finished) |-> tk[1 + tk[p].finished[k]].buffer]

GatherResults(tk, p) ==
    [i \in 1 .. Len(tk[p].album_tracks) |-> tk[1 + i].buffer]

\* A coroutine of a gather has finished: the first failure fails the gather at
\* once, the last success completes it.
GatherCallbackCollect(tk, p, t) ==
    LET fin == Append(tk[p].finished, t - 1)
        q == [tk[p] EXCEPT !.finished = fin]
    IN  IF q.pc # "gather" THEN [tk EXCEPT ![p] = q]
        ELSE IF Len(fin) = Len(q.album_tracks)
        THEN [tk EXCEPT ![p] = [q EXCEPT !.pc = "done",
                 !.albumResult = [i \in 1 .. Len(q.album_tracks) |-> tk[1 + i].buffer]]]
        ELSE [tk EXCEPT ![p] = q]

GatherCallback(tk, p, t) ==
    LET fin == Append(tk[p].finished, t - 1)
        q == [tk[p] EXCEPT !.finished = fin]
    IN  IF q.pc # "gather" THEN [tk EXCEPT ![p] = q]
        ELSE IF tk[t].pc = "failed"
        THEN [tk EXCEPT ![p] = [q EXCEPT !.pc = "failed", !.error = tk[t].error]]
        ELSE IF Len(fin) = Len(q.album_tracks)
        THEN [tk EXCEPT ![p] = [q EXCEPT !.pc = "done",
                                         !.albumResult = GatherResults([tk EXCEPT ![p] = q], p)]]
        ELSE [tk EXCEPT ![p] = q]

\* What is left of a gathered coroutine once it has ended: its result or its
\* exception.
Ended(rec) ==
    [IdleTask EXCEPT !.entry = rec.entry, !.op = rec.op, !.pc = rec.pc,
                     !.parent = rec.parent, !.track = rec.track,
                     !.buffer = rec.buffer, !.error = rec.error]

\* Coroutine t ends as `rec` (returned or raised); its awaiter is told.
Finish(tk, t, rec) ==
    IF rec.parent = 0 THEN [tk EXCEPT ![t] = rec]
    ELSE GatherCallback([tk EXCEPT ![t] = Ended(rec)], rec.parent, t)

Raise(tk, t, name, arg) ==
    Finish(tk, t, [tk[t] EXCEPT !.pc = "failed", !.error = Error(name, arg)])

\* ------------------------------------------------------------- utils
\* utils.get_quality
get_quality(bitrate) ==
    IF bitrate = "FLAC" THEN "9"
    ELSE IF bitrate = "MP3_320" THEN "3"
    ELSE IF bitrate = "MP3_256" THEN "5"
    ELSE "1"

\* Byte strings are sequences of numbers 0 .. 255.
SEPARATOR == 164
BLOCK == 16
DIGEST_LEN == 32
AES_KEY == <<106, 111, 54, 97, 101, 121, 54, 104, 97, 105, 100, 50, 84, 101, 105, 104>>

\* str(n).encode() of a number n >= 0: its decimal digits
RECURSIVE str(_)
str(n) == IF n < 10 THEN <<48 + n>> ELSE str(n \div 10) \o <<48 + (n % 10)>>

\* quality.encode(): the one character get_quality returned
encode(quality) == <<CodeByte(quality)>>

\* b"\xa4".join(parts)
RECURSIVE join(_)
join(parts) ==
    IF parts = <<>> THEN <<>>
    ELSE IF Len(parts) = 1 THEN parts[1]
    ELSE parts[1] \o <<SEPARATOR>> \o join(Tail(parts))

RECURSIVE SumBytes(_)
SumBytes(data) == IF data = <<>> THEN 0 ELSE (Head(data) % 256) + SumBytes(Tail(data))

\* The character of a hexadecimal digit 0 .. 15, lower case
HexChar(d) == IF d < 10 THEN 48 + d ELSE 87 + d

\* md5hex: hashlib.md5(data).hexdigest().encode().  MD5 is stood for by a
\* checksum with its shape: 32 hexadecimal digits fixed by the data.
Digest(sum, len) == [i \in 1 .. DIGEST_LEN |-> HexChar((sum * i + len + i) % 16)]

md5hex(data) == Digest(SumBytes(data), Len(data))

\* Padding that adds a whole block to data that is already aligned.
ZeroPadAlways(data) == data \o [i \in 1 .. BLOCK - (Len(data) % BLOCK) |-> 0]

\* if len(data) % 16: data += b"\x00" * (16 - len(data) % 16)
ZeroPad(data) ==
    IF Len(data) % BLOCK # 0
    THEN data \o [i \in 1 .. BLOCK - (Len(data) % BLOCK) |-> 0]
    ELSE data

\* AES in ECB mode: every block of 16 bytes is enciphered by itself, by a
\* permutation of the blocks the key fixes.  AES is stood for by the addition
\* of the key to the block, byte by byte.
encrypt(data) == [i \in 1 .. Len(data) |-> (data[i] + AES_KEY[((i - 1) % BLOCK) + 1]) % 256]

\* b2a_hex
b2a_hex(data) ==
    [i \in 1 .. 2 * Len(data) |->
        IF i % 2 = 1 THEN HexChar(data[(i + 1) \div 2] \div 16)
        ELSE HexChar(data[i \div 2] % 16)]

\* utils.get_stream_url: http://e-cdn-proxy-{host}.dzcdn.net/api/1/{hashs}.
\* origin, quality, id and version are what the content server reads out of
\* hashs with the same key.
get_stream_url(track, quality) ==
    LET data == join(<<track.md5_origin, encode(quality), str(track.id), track.media_version>>)
        padded == ZeroPad(join(<<md5hex(data), data>>) \o <<SEPARATOR>>)
    IN  [origin |-> track.md5_origin, quality |-> quality, id |-> track.id,
         version |-> track.media_version,
         host |-> <<track.md5_origin[1]>>, hashs |-> b2a_hex(encrypt(padded))]

\* ------------------------------------------------------------- Track
FreeRefs(objs) == {r \in DOMAIN objs : objs[r].id = 0}
\* object.__new__: a reference no object has yet
NewRef(objs) == CHOOSE r \in FreeRefs(objs) : \A q \in FreeRefs(objs) : r <= q

\* Track.__new__: the cached instance of the id, or a new cached one.
Track__new__Uncached(cache, objs, id) == NewRef(objs)

Track__new__(cache, objs, id) == IF cache[id] = 0 THEN NewRef(objs) ELSE cache[id]

\* Track.__init__: runs on whatever __new__ returned and sets the core fields.
Track__init__(obj, info) == [obj EXCEPT !.id = info.id, !.rank = info.rank]

\* The exception Track(track_info) raises, NoError when it raises none: __new__
\* reads track_info["id"] before __init__ looks for "error".
TrackRaises(info) ==
    IF "id" \notin DOMAIN info THEN Error("KeyError", <<>>)
    ELSE IF "error" \in DOMAIN info THEN Error("DeezerApiError", info.error)
    ELSE NoError

\* Track(info) that does not enter the instance into the cache.
TrackCallUnrecorded(cache, objs, info) ==
    LET ref == Track__new__(cache, objs, info.id)
    IN  [ref |-> ref,
         cache |-> cache,
         objs |-> [objs EXCEPT ![ref] = Track__init__(@, info)]]

\* Track(info): the reference, the cache and the objects afterwards.
TrackCall(cache, objs, info) ==
    LET ref == Track__new__(cache, objs, info.id)
    IN  [ref |-> ref,
         cache |-> [cache EXCEPT ![info.id] = ref],
         objs |-> [objs EXCEPT ![ref] = Track__init__(@, info)]]

\* add_more_tags that leaves the extended fields as they are.
add_more_tagsSkipped(obj, r) == obj

\* Track.add_more_tags, after get_api has returned r
add_more_tags(obj, r) ==
    [obj EXCEPT !.md5_origin = r.MD5_ORIGIN, !.media_version = r.MEDIA_VERSION]

\* ---------------------------------------------------- download_track
\* The bitrate download_track falls back to, "" when there is none.
FallbackBitrateSkipping(bitrate) ==
    IF bitrate = "FLAC" THEN "MP3_256"
    ELSE IF bitrate = "MP3_320" THEN "MP3_256"
    ELSE IF bitrate = "MP3_256" THEN "MP3_128"
    ELSE ""

FallbackBitrateLooping(bitrate) ==
    IF bitrate = "FLAC" THEN "MP3_320"
    ELSE IF bitrate = "MP3_320" THEN "MP3_256"
    ELSE IF bitrate = "MP3_256" THEN "MP3_128"
    ELSE IF bitrate = "MP3_128" THEN "MP3"
    ELSE ""

\* A fallback that takes a label it does not know for a level above MP3_128.
FallbackBitrateDefaulting(bitrate) ==
    IF bitrate = "FLAC" THEN "MP3_320"
    ELSE IF bitrate = "MP3_320" THEN "MP3_256"
    ELSE IF bitrate = "MP3_128" THEN ""
    ELSE "MP3_128"

\* download_track: the bitrate of the attempt after a zero content length.
FallbackBitrate(bitrate) ==
    IF bitrate = "FLAC" THEN "MP3_320"
    ELSE IF bitrate = "MP3_320" THEN "MP3_256"
    ELSE IF bitrate = "MP3_256" THEN "MP3_128"
    ELSE ""

\* download_track from its entry to its first suspension, inside
\* add_more_tags -> get_api.  attempts are the bitrates of the invocations of
\* the fallback chain so far.
DownloadTrackBegin(rec, ref, id, bitrate) ==
    GetApiBegin([rec EXCEPT !.op = "download_track", !.track = ref,
                            !.bitrate = bitrate, !.quality = get_quality(bitrate),
                            !.attempts = Append(@, bitrate)],
                METHOD_PAGE_TRACK, id)

\* ------------------------------------------------------------ actions
Idle == \A t \in TaskIds : task[t].pc = "idle"

\* A caller awaits session.get_api(method, {"sng_id": id}).
CallPrivate(method, id) ==
    /\ Idle /\ calls < MaxCalls
    /\ calls' = calls + 1
    /\ task' = [task EXCEPT ![Main] = GetApiBegin([IdleTask EXCEPT !.entry = "get_api", !.op = "get_api"], method, id)]
    /\ http_session' = update_requests_session(http_session)
    /\ UNCHANGED <<arl_token, csrf_token, session_expires, now, entity_vars>>

\* An expiry that forgets the time of the refresh.
ExpiryFromZero(time) == SESSION_TTL

\* _refresh_session: self._session_expires = time.time() + 3600
Expiry(time) == time + SESSION_TTL

\* The identity lookup of _refresh_session is answered.
RefreshResponse(t) ==
    /\ task[t].pc = "refresh_wait"
    /\ \/ /\ task' = Raise(task, t, "ClientResponseError", <<>>)
          /\ UNCHANGED <<csrf_token, session_expires, http_session>>
       \/ \E user \in UserResponses :
            LET rec == [task[t] EXCEPT !.user = user]
            IN  IF IsAnonymous(user)
                THEN /\ task' = Finish(task, t, [rec EXCEPT !.pc = "failed",
                                                    !.error = Error("DeezerLoginError", <<>>)])
                     /\ UNCHANGED <<csrf_token, session_expires, http_session>>
                ELSE /\ csrf_token' = user.checkForm
                     /\ session_expires' = Expiry(now)
                     /\ http_session' = update_requests_session(http_session)
                     /\ task' = [task EXCEPT ![t] =
                            Post([rec EXCEPT !.pc = "api_wait"],
                                 ApiRequest(rec.method, user.checkForm, rec.content_id))]
    /\ UNCHANGED <<arl_token, now, entity_vars, calls>>

\* What the private API may answer to a request.
ApiResponses(rec) ==
    IF rec.method = METHOD_GET_USER THEN UserResponses
    ELSE {PageTrackResponse(rec.content_id), ErrorEnvelope}

\* get_api's own request is answered; get_api returns the results to its
\* caller, which runs on to its next suspension.
ApiResponse(t) ==
    /\ task[t].pc = "api_wait"
    /\ \/ /\ task' = Raise(task, t, "ClientResponseError", <<>>)
          /\ UNCHANGED tracks
       \/ \E r \in ApiResponses(task[t]) :
            LET rec == [task[t] EXCEPT !.apiResult = r]
            IN  IF rec.op = "get_api"
                THEN /\ task' = Finish(task, t, [rec EXCEPT !.pc = "done"])
                     /\ UNCHANGED tracks
                ELSE IF r.kind = "error"
                THEN /\ task' = Finish(task, t, [rec EXCEPT !.pc = "failed",
                                                    !.error = Error("KeyError", <<>>)])
                     /\ UNCHANGED tracks
                ELSE LET obj == add_more_tags(tracks[rec.track], r)
                         url == get_stream_url(obj, rec.quality)
                     IN  /\ tracks' = [tracks EXCEPT ![rec.track] = obj]
                         /\ IF rec.entry = "add_more_tags"
                            THEN task' = Finish(task, t, [rec EXCEPT !.pc = "done"])
                            ELSE task' = [task EXCEPT ![t] =
                                     Post([rec EXCEPT !.pc = "stream_wait", !.streams = @ + 1],
                                          Request("stream", "GET", NoToken, url.id, url))]
    /\ UNCHANGED <<session_vars, now, track_cache, held, calls>>

\* download_track: the headers of the streaming GET arrive.  A zero
\* Content-Length falls back to the next bitrate or raises DownloadError.
StreamHeaders(t) ==
    /\ task[t].pc = "stream_wait"
    /\ LET rec == task[t]
           url == rec.req.url
       IN  \/ /\ task' = Raise(task, t, "ClientResponseError", <<>>)
              /\ UNCHANGED http_session
           \/ \E total \in {0, Len(ServerAsset(url))} :
                IF total = 0
                THEN IF FallbackBitrate(rec.bitrate) = ""
                     THEN /\ task' = Raise(task, t, "DownloadError", tracks[rec.track].id)
                          /\ UNCHANGED http_session
                     ELSE /\ task' = [task EXCEPT ![t] =
                                DownloadTrackBegin(rec, rec.track, tracks[rec.track].id,
                                                   FallbackBitrate(rec.bitrate))]
                          /\ http_session' = update_requests_session(http_session)
                ELSE /\ task' = [task EXCEPT ![t] =
                            [rec EXCEPT !.pc = "chunks", !.total = total, !.current = 0,
                                        !.buffer = <<>>, !.body = ServerAsset(url)]]
                     /\ UNCHANGED http_session
    /\ UNCHANGED <<arl_token, csrf_token, session_expires, now, entity_vars, calls>>

\* The body of the chunk loop for one chunk, with the counter restarted.
ReceiveChunkRestarting(rec, data) ==
    [rec EXCEPT !.current = Len(data),
                !.buffer = @ \o data,
                !.scheduled = IF rec.callback
                              THEN Append(@, [current |-> Len(data), total |-> rec.total,
                                              state |-> "pending"])
                              ELSE @]

\* The body of the chunk loop for one chunk: current += len(data),
\* buffer += data, and with a callback a task for progress_callback(current,
\* total) is created.
ReceiveChunk(rec, data) ==
    [rec EXCEPT !.current = @ + Len(data),
                !.buffer = @ \o data,
                !.scheduled = IF rec.callback
                              THEN Append(@, [current |-> rec.current + Len(data),
                                              total |-> rec.total, state |-> "pending"])
                              ELSE @]

\* The callback tasks a download would wait for if it awaited them all.
JoinedAll(rec) ==
    {i \in DOMAIN rec.scheduled : rec.scheduled[i].state \in {"pending", "running"}}

\* The callback tasks download_track waits for before it goes on: create_task
\* hands the coroutine to the event loop and the task is never awaited.
Joined(rec) == {}

\* download_track: one chunk of the body arrives.
Chunk(t) ==
    /\ task[t].pc = "chunks"
    /\ task[t].body # <<>>
    /\ Joined(task[t]) = {}
    /\ \E k \in 1 .. Len(task[t].body) :
         LET data == Take(task[t].body, k)
         IN  task' = [task EXCEPT ![t] =
                 [ReceiveChunk(task[t], data) EXCEPT !.body = Drop(@, k)]]
    /\ UNCHANGED <<session_vars, now, entity_vars, calls>>

\* A callback task ends with an exception that reaches download_track.
CallbackSettleRaising(rec, i, state) ==
    IF state = "failed"
    THEN [rec EXCEPT !.scheduled[i].state = state, !.pc = "failed",
                     !.error = Error("CallbackError", <<>>)]
    ELSE [rec EXCEPT !.scheduled[i].state = state]

\* A callback task moves on: its result or exception stays in the task.
CallbackSettle(rec, i, state) == [rec EXCEPT !.scheduled[i].state = state]

\* The event loop runs the task of a progress callback while download_track
\* is suspended or after it has returned: the task starts, ends or raises.
CallbackStep(t, i) ==
    /\ i \in DOMAIN task[t].scheduled
    /\ \E state \in {"running", "done", "failed"} :
         /\ \/ task[t].scheduled[i].state = "pending"
            \/ task[t].scheduled[i].state = "running" /\ state # "running"
         /\ task' = [task EXCEPT ![t] = CallbackSettle(task[t], i, state)]
    /\ UNCHANGED <<session_vars, now, entity_vars, calls>>

\* download_track: the body ends and the buffer is returned.
EndOfBody(t) ==
    /\ task[t].pc = "chunks"
    /\ task[t].body = <<>>
    /\ Joined(task[t]) = {}
    /\ task' = Finish(task, t, [task[t] EXCEPT !.pc = "done"])
    /\ UNCHANGED <<session_vars, now, entity_vars, calls>>

\* A caller awaits session.download_track_via_id(track_id, bitrate, callback):
\* Track.init_via_track_id posts its lookup.
DownloadTrackViaId(id, bitrate, callback) ==
    /\ Idle /\ calls < MaxCalls
    /\ calls' = calls + 1
    /\ task' = [task EXCEPT ![Main] =
           Post([IdleTask EXCEPT !.entry = "download_track_via_id",
                                 !.op = "init_via_track_id", !.pc = "lookup_wait",
                                 !.content_id = id, !.requested = bitrate,
                                 !.callback = callback],
                Request("public", "track", NoToken, id, NoUrl))]
    /\ UNCHANGED <<session_vars, now, entity_vars>>

\* What the public API may answer to a track lookup.
TrackLookupResponses(id) == {info \in TrackInfos : info.id = id} \cup {ErrorPayload}

\* Track.init_via_track_id: the lookup is answered and the Track is made; a
\* download goes on into download_track.
LookupResponse(t) ==
    /\ task[t].pc = "lookup_wait"
    /\ \/ /\ task' = Raise(task, t, "ClientResponseError", <<>>)
          /\ UNCHANGED <<http_session, entity_vars>>
       \/ \E info \in TrackLookupResponses(task[t].content_id) :
            LET rec == [task[t] EXCEPT !.info = info]
            IN
            IF TrackRaises(info) # NoError
            THEN /\ task' = Finish(task, t, [rec EXCEPT !.pc = "failed",
                                                        !.error = TrackRaises(info)])
                 /\ UNCHANGED <<http_session, entity_vars>>
            ELSE LET made == TrackCall(track_cache, tracks, info)
                 IN  /\ track_cache' = made.cache
                     /\ tracks' = made.objs
                     /\ held' = held \cup {made.ref}
                     /\ IF rec.entry = "init_via_track_id"
                        THEN /\ task' = Finish(task, t, [rec EXCEPT !.pc = "done",
                                                                   !.track = made.ref])
                             /\ UNCHANGED http_session
                        ELSE /\ task' = [task EXCEPT ![t] =
                                    DownloadTrackBegin(rec, made.ref, info.id,
                                                       rec.requested)]
                             /\ http_session' = update_requests_session(http_session)
    /\ UNCHANGED <<arl_token, csrf_token, session_expires, now, calls>>

\* Time passes.
Tick ==
    /\ now + TimeStep <= MaxTime
    /\ now' = now + TimeStep
    /\ UNCHANGED <<session_vars, entity_vars, task, calls>>

\* The caller has its result or its exception; every coroutine has ended.
Return ==
    /\ Terminal(task[Main])
    /\ \A t \in Children : task[t].pc = "idle" \/ Terminal(task[t])
    /\ task' = [t \in TaskIds |-> IdleTask]
    /\ UNCHANGED <<session_vars, now, entity_vars, calls>>

\* ------------------------------------------------------- resolution
MaxResolutions == 3

\* A caller awaits Track.init_via_track_id(track_id).
ResolveTrack(id) ==
    /\ Idle /\ calls < MaxResolutions
    /\ calls' = calls + 1
    /\ task' = [task EXCEPT ![Main] =
           Post([IdleTask EXCEPT !.entry = "init_via_track_id", !.op = "init_via_track_id",
                                 !.pc = "lookup_wait", !.content_id = id],
                Request("public", "track", NoToken, id, NoUrl))]
    /\ UNCHANGED <<session_vars, now, entity_vars>>

\* A caller awaits Album.init_via_album_id(album_id) and calls fetch_tracks()
\* on the Album.
ExpandAlbum(id) ==
    /\ Idle /\ calls < MaxResolutions
    /\ calls' = calls + 1
    /\ task' = [task EXCEPT ![Main] =
           Post([IdleTask EXCEPT !.entry = "fetch_tracks", !.op = "init_via_album_id",
                                 !.pc = "album_wait", !.content_id = id],
                Request("public", "album", NoToken, id, NoUrl))]
    /\ UNCHANGED <<session_vars, now, entity_vars>>

\* A caller awaits track.add_more_tags(session) on a Track it holds.
Hydrate(ref) ==
    /\ Idle /\ calls < MaxResolutions
    /\ calls' = calls + 1
    /\ task' = [task EXCEPT ![Main] =
           GetApiBegin([IdleTask EXCEPT !.entry = "add_more_tags", !.op = "add_more_tags",
                                        !.track = ref],
                       METHOD_PAGE_TRACK, tracks[ref].id)]
    /\ http_session' = update_requests_session(http_session)
    /\ UNCHANGED <<arl_token, csrf_token, session_expires, now, entity_vars>>

\* ------------------------------------------------------- download
\* A URL is a string cut into tokens: a scheme, "www.", a host, "/", "?", and
\* runs of word characters ("track", "en", "12" as the digits "1" "2").
DigitTokens == {"1", "2"}
LetterTokens == {"track", "album", "en"}
WordTokens == LetterTokens \cup DigitTokens
PathTokens == WordTokens \cup {"/", "?"}
MaxPathLen == 5

UrlPrefixes ==
    {<<"https://", "deezer.com", "/">>,
     <<"http://", "www.", "deezer.com", "/">>,
     <<"https://", "example.com", "/">>}
Urls(n) == {prefix \o path : prefix \in UrlPrefixes, path \in SeqsUpTo(PathTokens, n)}

DigitValue(d) == IF d = "1" THEN 1 ELSE 2

\* int(): the decimal value of a run of digits
RECURSIVE int(_)
int(digits) ==
    IF digits = <<>> THEN 0
    ELSE 10 * int(Take(digits, Len(digits) - 1)) + DigitValue(digits[Len(digits)])

\* The last position of the longest run of tokens of S from p on, p - 1 if none:
\* what a greedy \w+ or \d+ takes at p.
RunEnd(url, p, S) ==
    LET ends == {e \in p .. Len(url) : \A k \in p .. e : url[k] \in S}
    IN  IF ends = {} THEN p - 1 ELSE CHOOSE e \in ends : \A f \in ends : f <= e

At(url, p) == IF p \in 1 .. Len(url) THEN url[p] ELSE ""

NoMatch == [ok |-> FALSE, mode |-> <<>>, id |-> 0]

\* (\w+)/(\d+) at p
MatchModeId(url, p) ==
    LET e1 == RunEnd(url, p, WordTokens)
        e2 == RunEnd(url, e1 + 2, DigitTokens)
    IN  IF e1 >= p /\ At(url, e1 + 1) = "/" /\ e2 >= e1 + 2
        THEN [ok |-> TRUE, mode |-> SubSeq(url, p, e1), id |-> int(SubSeq(url, e1 + 2, e2))]
        ELSE NoMatch

\* The same without the optional group.
MatchPathNoLocale(url, p) == MatchModeId(url, p)

\* (?:\w+/)?(\w+)/(\d+) at p: the optional group is tried first, and dropped
\* when the rest does not match after it.
MatchPath(url, p) ==
    LET e0 == RunEnd(url, p, WordTokens)
        taken == IF e0 >= p /\ At(url, e0 + 1) = "/" THEN MatchModeId(url, e0 + 2) ELSE NoMatch
    IN  IF taken.ok THEN taken ELSE MatchModeId(url, p)

\* re.match(r"https?://(?:www\.)?deezer\.com/(?:\w+/)?(\w+)/(\d+)", url)
UrlMatch(url) ==
    LET p == IF At(url, 2) = "www." THEN 3 ELSE 2
    IN  IF At(url, 1) \in {"https://", "http://"} /\ At(url, p) = "deezer.com"
           /\ At(url, p + 1) = "/"
        THEN MatchPath(url, p + 2)
        ELSE NoMatch

\* A caller awaits session.download(url, bitrate, callback).
Download(url, bitrate, callback) ==
    /\ Idle /\ calls < MaxCalls
    /\ calls' = calls + 1
    /\ LET match == UrlMatch(url)
           rec == [IdleTask EXCEPT !.entry = "download", !.op = "download",
                                   !.url = url, !.mode = match.mode, !.content_id = match.id,
                                   !.requested = bitrate]
       IN  IF ~match.ok
           THEN task' = [task EXCEPT ![Main] =
                    [rec EXCEPT !.pc = "failed", !.error = Error("InvalidUrlError", url)]]
           ELSE IF match.mode = <<"track">>
           THEN task' = [task EXCEPT ![Main] =
                    Post([rec EXCEPT !.op = "init_via_track_id", !.pc = "lookup_wait",
                                     !.callback = callback],
                         Request("public", "track", NoToken, match.id, NoUrl))]
           ELSE IF match.mode = <<"album">>
           THEN task' = [task EXCEPT ![Main] =
                    Post([rec EXCEPT !.op = "init_via_album_id", !.pc = "album_wait"],
                         Request("public", "album", NoToken, match.id, NoUrl))]
           ELSE task' = [task EXCEPT ![Main] =
                    [rec EXCEPT !.pc = "failed",
                                !.error = Error("ActionNotSupported", match.mode)]]
    /\ UNCHANGED <<session_vars, now, entity_vars>>

\* ------------------------------------------------------ download_album
\* The member-track summaries the public API may embed in an album.
AlbumSummaries == [kind : {"info"}, id : TrackIds, rank : {1}]
AlbumLookupResponses(id) ==
    IF id \in AlbumIds
    THEN [kind : {"album"}, data : SeqsUpTo(AlbumSummaries, MaxAlbumLen)] \cup {ErrorPayload}
    ELSE {ErrorPayload}

\* Album.fetch_tracks: Track(summary) of each member, in order.
RECURSIVE fetch_tracks(_, _, _)
fetch_tracks(cache, objs, data) ==
    IF data = <<>> THEN [refs |-> <<>>, cache |-> cache, objs |-> objs]
    ELSE LET made == TrackCall(cache, objs, Head(data))
             rest == fetch_tracks(made.cache, made.objs, Tail(data))
         IN  [refs |-> <<made.ref>> \o rest.refs, cache |-> rest.cache, objs |-> rest.objs]

\* Album.init_via_album_id is answered.  The caller of fetch_tracks gets the
\* Tracks; download_album makes the Tracks and one download_track coroutine per
\* Track, and awaits their gather: the event loop then runs each coroutine, in
\* order, up to its first request, before it polls for any answer.
AlbumLookupResponse(t) ==
    /\ task[t].pc = "album_wait"
    /\ \/ /\ task' = Raise(task, t, "ClientResponseError", <<>>)
          /\ UNCHANGED <<entity_vars, http_session>>
       \/ \E info \in AlbumLookupResponses(task[t].content_id) :
            IF info.kind = "error"
            THEN /\ task' = Raise(task, t, "KeyError", <<>>)
                 /\ UNCHANGED <<entity_vars, http_session>>
            ELSE LET got == fetch_tracks(track_cache, tracks, info.data)
                     n == Len(got.refs)
                     parent == [task[t] EXCEPT !.op = "download_album",
                                               !.album_tracks = got.refs,
                                               !.pc = IF n = 0 THEN "done" ELSE "gather"]
                 IN  /\ track_cache' = got.cache
                     /\ tracks' = got.objs
                     /\ held' = held \cup {got.refs[i] : i \in 1 .. n}
                     /\ IF task[t].entry = "fetch_tracks"
                        THEN /\ task' = Finish(task, t, [task[t] EXCEPT !.pc = "done",
                                                             !.album_tracks = got.refs])
                             /\ UNCHANGED http_session
                        ELSE /\ task' = [c \in TaskIds |->
                                    IF c = t THEN parent
                                    ELSE IF c - 1 \in 1 .. n
                                    THEN DownloadTrackBegin(
                                             [IdleTask EXCEPT !.entry = "gather", !.parent = t,
                                                              !.requested = task[t].requested],
                                             got.refs[c - 1], got.objs[got.refs[c - 1]].id,
                                             task[t].requested)
                                    ELSE task[c]]
                             /\ http_session' = IF n = 0 THEN http_session
                                                ELSE update_requests_session(http_session)
    /\ UNCHANGED <<arl_token, csrf_token, session_expires, now, calls>>

\* -------------------------------------------------------- search_songs
MaxResults == 2
MaxLimit == 2
Items == {1, 2}
ResultLists == SeqsUpTo(Items, MaxResults)
Limits == 0 .. MaxLimit

\* seq[:n] of Python
PySliceTo(seq, n) ==
    IF n >= 0 THEN Take(seq, IF n < Len(seq) THEN n ELSE Len(seq))
    ELSE Take(seq, IF Len(seq) + n > 0 THEN Len(seq) + n ELSE 0)

ProjectAlbum(element) == [album_title |-> element, link |-> element]
ProjectTrack(element) == [music_title |-> element, link |-> element]

\* search_songs after its gather
SearchResult(albums, found, albums_count, songs_limit) ==
    LET a == PySliceTo(albums, albums_count)
        f == PySliceTo(found, songs_limit - albums_count)
    IN  [albums |-> [i \in 1 .. Len(a) |-> ProjectAlbum(a[i])],
         tracks |-> [i \in 1 .. Len(f) |-> ProjectTrack(f[i])]]

\* A caller awaits session.search_songs(name, albums_count, songs_limit):
\* _find_albums and _find_tracks post their requests.
SearchSongs(albums_count, songs_limit) ==
    /\ Idle /\ calls < MaxCalls
    /\ calls' = calls + 1
    /\ http_session' = update_requests_session(http_session)
    /\ task' = [task EXCEPT ![Main] =
           [IdleTask EXCEPT !.entry = "search_songs", !.op = "search_songs",
                            !.pc = "search_wait", !.posts = 2,
                            !.albums_count = albums_count, !.songs_limit = songs_limit]]
    /\ UNCHANGED <<arl_token, csrf_token, session_expires, now, entity_vars>>

\* The gather of search_songs after one of its two coroutines has returned.
SearchGather(rec) ==
    IF rec.albums # Pending /\ rec.found # Pending
    THEN [rec EXCEPT !.pc = "done",
                     !.searchResult = SearchResult(rec.albums, rec.found,
                                                   rec.albums_count, rec.songs_limit)]
    ELSE rec

\* _find_albums is answered.
FindAlbumsResponse(t) ==
    /\ task[t].pc = "search_wait"
    /\ task[t].albums = Pending
    /\ \/ task' = Raise(task, t, "ClientResponseError", <<>>)
       \/ \E data \in ResultLists :
            task' = [task EXCEPT ![t] = SearchGather([task[t] EXCEPT !.albums = data])]
    /\ UNCHANGED <<session_vars, now, entity_vars, calls>>

\* _find_tracks is answered.
FindTracksResponse(t) ==
    /\ task[t].pc = "search_wait"
    /\ task[t].found = Pending
    /\ \/ task' = Raise(task, t, "ClientResponseError", <<>>)
       \/ \E data \in ResultLists :
            task' = [task EXCEPT ![t] = SearchGather([task[t] EXCEPT !.found = data])]
    /\ UNCHANGED <<session_vars, now, entity_vars, calls>>

\* ------------------------------------------------------ specifications
MaxRefs == MaxTrackId + MaxAlbumLen

\* Session.__init__, and empty class-level caches
Init ==
    /\ arl_token = ArlToken
    /\ csrf_token = NoToken
    /\ session_expires = 0
    /\ http_session = NoTransport
    /\ now = StartTime
    /\ held = {}
    /\ track_cache = [id \in TrackIds |-> 0]
    /\ tracks = [r \in 1 .. MaxRefs |-> NoTrack]
    /\ task = [t \in TaskIds |-> IdleTask]
    /\ calls = 0

NextApi ==
    \/ \E m \in Methods, id \in TrackIds : CallPrivate(m, id)
    \/ RefreshResponse(Main)
    \/ ApiResponse(Main)
    \/ Tick
    \/ Return

SpecApi == Init /\ [][NextApi]_vars

TrackStep(t) ==
    \/ LookupResponse(t)
    \/ RefreshResponse(t)
    \/ ApiResponse(t)
    \/ StreamHeaders(t)
    \/ Chunk(t)
    \/ EndOfBody(t)

NextTrack ==
    \/ \E b \in Bitrates, cb \in BOOLEAN : DownloadTrackViaId(1, b, cb)
    \/ TrackStep(Main)
    \/ Tick
    \/ Return

SpecTrack == Init /\ [][NextTrack]_vars

\* Every awaited response arrives, or the transport raises.
FairSpecTrack == SpecTrack /\ WF_vars(TrackStep(Main))

AlbumUrls == {<<"http://", "www.", "deezer.com", "/", "en", "/", "album", "/", "1">>}

NextAlbum ==
    \/ /\ calls = 0
       /\ \E url \in AlbumUrls : Download(url, "MP3_128", FALSE)
    \/ \E t \in TaskIds :
         \/ AlbumLookupResponse(t)
         \/ RefreshResponse(t)
         \/ ApiResponse(t)
         \/ StreamHeaders(t)
         \/ Chunk(t)
         \/ EndOfBody(t)
    \/ Return

SpecAlbum == Init /\ [][NextAlbum]_vars

NextUrl ==
    \/ /\ calls = 0
       /\ \E url \in Urls(MaxPathLen) : Download(url, "MP3_128", FALSE)
    \/ LookupResponse(Main)
    \/ AlbumLookupResponse(Main)
    \/ Return

SpecUrl == Init /\ [][NextUrl]_vars

NextSearch ==
    \/ \E a \in Limits, n \in Limits : SearchSongs(a, n)
    \/ FindAlbumsResponse(Main)
    \/ FindTracksResponse(Main)
    \/ Return

SpecSearch == Init /\ [][NextSearch]_vars

NextProgress ==
    \/ \E b \in {"MP3_256", "MP3_128"}, cb \in BOOLEAN : DownloadTrackViaId(1, b, cb)
    \/ TrackStep(Main)
    \/ \E i \in 1 .. Len(task[Main].scheduled) : CallbackStep(Main, i)
    \/ Return

SpecProgress == Init /\ [][NextProgress]_vars

\* The application closes the transport of a Session it is not using.
MaxCloses == 1

CloseTransport ==
    /\ Idle
    /\ http_session.state = "open"
    /\ http_session.made <= MaxCloses
    /\ http_session' = [http_session EXCEPT !.state = "closed"]
    /\ UNCHANGED <<arl_token, csrf_token, session_expires, now, entity_vars, task, calls>>

\* The operations of a Session, one after the other, and the transport closed
\* in between.
NextSession ==
    \/ \E method \in Methods : CallPrivate(method, 1)
    \/ \E a \in Limits, n \in Limits : SearchSongs(a, n)
    \/ DownloadTrackViaId(1, "MP3_256", FALSE)
    \/ TrackStep(Main)
    \/ FindAlbumsResponse(Main)
    \/ FindTracksResponse(Main)
    \/ CloseTransport
    \/ Return

SpecSession == Init /\ [][NextSession]_vars

\* Hydrated Tracks of any origin hash, media version and id, and a caller of
\* utils.get_stream_url.
MaxHashLen == 3
HashBytes == {97, 102}
OriginHashes == SeqsUpTo(HashBytes, MaxHashLen) \ {<<>>}
MediaVersions == {<<49>>, <<49, 48>>}
StreamIds == {7, 42, 12345}
QualityLabels == {"9", "3", "5", "1"}

InitDerive ==
    /\ arl_token = ArlToken
    /\ csrf_token = NoToken
    /\ session_expires = 0
    /\ http_session = NoTransport
    /\ now = StartTime
    /\ held = {1}
    /\ track_cache = [id \in TrackIds |-> 0]
    /\ \E origin \in OriginHashes, version \in MediaVersions, id \in StreamIds, rank \in Ranks :
          tracks = [r \in 1 .. MaxRefs |->
                       IF r = 1 THEN [id |-> id, rank |-> rank, md5_origin |-> origin,
                                      media_version |-> version]
                       ELSE NoTrack]
    /\ task = [t \in TaskIds |-> IdleTask]
    /\ calls = 0

\* A caller calls utils.get_stream_url(track, quality).
GetStreamUrl(ref, quality) ==
    /\ Idle /\ calls < MaxCalls
    /\ calls' = calls + 1
    /\ task' = [task EXCEPT ![Main] =
           [IdleTask EXCEPT !.entry = "get_stream_url", !.op = "get_stream_url",
                            !.pc = "done", !.track = ref, !.quality = quality,
                            !.req = Request("none", "", NoToken, 0,
                                            get_stream_url(tracks[ref], quality))]]
    /\ UNCHANGED <<session_vars, now, entity_vars>>

NextDerive ==
    \/ \E quality \in QualityLabels : GetStreamUrl(1, quality)
    \/ Return

SpecDerive == InitDerive /\ [][NextDerive]_vars

\* The download goes on whenever it can; nothing is assumed of the callbacks.
FairSpecProgress == SpecProgress /\ WF_vars(TrackStep(Main))

NextCache ==
    \/ \E id \in TrackIds : ResolveTrack(id)
    \/ \E id \in AlbumIds : ExpandAlbum(id)
    \/ \E ref \in held : Hydrate(ref)
    \/ LookupResponse(Main)
    \/ AlbumLookupResponse(Main)
    \/ RefreshResponse(Main)
    \/ ApiResponse(Main)
    \/ Return

SpecCache == Init /\ [][NextCache]_vars

\* A caller awaits Track.init_via_track_id(track_id) in coroutine t while
\* other coroutines may be awaiting theirs.  uncached notes whether the cache
\* had no Track of the id when the resolution began.
ResolveAlongside(t, id) ==
    /\ task[t].pc = "idle" /\ calls < MaxResolutions
    /\ calls' = calls + 1
    /\ task' = [task EXCEPT ![t] =
           Post([IdleTask EXCEPT !.entry = "init_via_track_id", !.op = "init_via_track_id",
                                 !.pc = "lookup_wait", !.content_id = id,
                                 !.uncached = (track_cache[id] = 0)],
                Request("public", "track", NoToken, id, NoUrl))]
    /\ UNCHANGED <<session_vars, now, entity_vars>>

\* The caller of coroutine t has its Track or its exception.
Resolved(t) ==
    /\ Terminal(task[t])
    /\ task' = [task EXCEPT ![t] = IdleTask]
    /\ UNCHANGED <<session_vars, now, entity_vars, calls>>

\* Concurrent resolutions: every coroutine is its own caller.
NextConcurrent ==
    \/ \E t \in TaskIds, id \in TrackIds : ResolveAlongside(t, id)
    \/ \E t \in TaskIds : LookupResponse(t)
    \/ \E t \in TaskIds : Resolved(t)

SpecConcurrent == Init /\ [][NextConcurrent]_vars

\* -------------------------------------------------------------- claims
\* C1: every private-API request for a method other than the identity lookup
\* is posted with a token that is not empty and not expired (the time is
\* before session_expires) at the moment it is posted.
C1_RequestCarriesLiveToken ==
    [][\A t \in TaskIds :
         (task'[t].posts # task[t].posts /\ task'[t].pc = "api_wait"
          /\ task'[t].method # METHOD_GET_USER)
         => (task'[t].req.token # NoToken /\ now' < session_expires')]_vars

\* C2: get_api for a method other than the identity lookup, entered with no
\* token, first posts the identity lookup and nothing else; when that is
\* answered by a user, it posts the request itself, its second and last, with
\* the token of that answer; get_api for the identity lookup posts that
\* request at once, without a refresh.
C2_Step(a, b) ==
    /\ (a.pc = "idle" /\ b.entry = "get_api" /\ b.method # METHOD_GET_USER
        /\ csrf_token = NoToken)
       => (b.pc = "refresh_wait" /\ b.posts = 1
           /\ b.req = ApiRequest(METHOD_GET_USER, NoToken, 0))
    /\ (a.entry = "get_api" /\ a.pc = "refresh_wait" /\ b.pc = "api_wait")
       => (b.posts = 2 /\ b.req.method = a.method /\ b.req.method # METHOD_GET_USER
           /\ b.req.token = b.user.checkForm /\ b.req.token = csrf_token')
    /\ (a.entry = "get_api" /\ a.pc = "api_wait")
       => (b.posts = a.posts /\ b.pc \in {"api_wait", "done", "failed"})
    /\ (a.pc = "idle" /\ b.entry = "get_api" /\ b.method = METHOD_GET_USER)
       => (b.pc = "api_wait" /\ b.posts = 1 /\ b.req.method = METHOD_GET_USER)

C2_RefreshOnceThenRequest ==
    /\ [](\A t \in TaskIds : task[t].entry = "get_api" => task[t].posts <= 2)
    /\ [][\A t \in TaskIds : C2_Step(task[t], task'[t])]_vars

C2_Witness ==
    /\ calls = 1
    /\ task[Main].entry = "get_api" /\ task[Main].pc = "done"
    /\ task[Main].method # METHOD_GET_USER /\ task[Main].posts = 2

\* C3: a coroutine whose identity lookup was answered with the anonymous user
\* has failed with DeezerLoginError, and the identity lookup is the last
\* request it posted.
C3_AnonymousUserFailsTheCall ==
    \A t \in TaskIds :
        (task[t].user.kind = "user" /\ task[t].user.USER_ID = ANONYMOUS)
        => /\ task[t].pc = "failed"
           /\ task[t].error.name = "DeezerLoginError"
           /\ task[t].req.method = METHOD_GET_USER
           /\ (task[t].entry = "get_api" => task[t].posts = 1)

C3_Witness ==
    /\ task[Main].entry = "get_api" /\ task[Main].pc = "failed"
    /\ task[Main].user.kind = "user" /\ task[Main].user.USER_ID = ANONYMOUS

\* C4: the bitrates download_track attempts are consecutive levels of FLAC,
\* MP3_320, MP3_256, MP3_128 from the requested bitrate on; an attempt whose
\* streaming GET ends neither in a body nor in a transport error is followed
\* by the attempt at the next level, and at MP3_128 (or an unrecognised
\* label) by DownloadError(track id) and no attempt.
Chain == <<"FLAC", "MP3_320", "MP3_256", "MP3_128">>
NextLevel(bitrate) ==
    IF \E k \in 1 .. 3 : Chain[k] = bitrate
    THEN Chain[1 + CHOOSE k \in 1 .. 3 : Chain[k] = bitrate]
    ELSE ""

C4_Inv(rec) ==
    /\ rec.attempts # <<>> => rec.attempts[1] = rec.requested
    /\ \A i \in 1 .. Len(rec.attempts) - 1 :
         /\ NextLevel(rec.attempts[i]) # ""
         /\ rec.attempts[i + 1] = NextLevel(rec.attempts[i])
    /\ rec.pc = "chunks" => rec.total # 0
    /\ (rec.pc = "failed" /\ rec.error.name = "DownloadError")
       => (NextLevel(rec.attempts[Len(rec.attempts)]) = ""
           /\ rec.streams = Len(rec.attempts)
           /\ rec.error.arg = tracks[rec.track].id)

C4_Step(a, b) ==
    (a.pc = "stream_wait" /\ b # a /\ b.pc # "chunks"
     /\ b.error.name # "ClientResponseError")
    => IF NextLevel(a.bitrate) # ""
       THEN /\ b.attempts = Append(a.attempts, NextLevel(a.bitrate))
            /\ b.pc \in {"refresh_wait", "api_wait"}
       ELSE /\ b.pc = "failed" /\ b.error.name = "DownloadError"
            /\ b.attempts = a.attempts /\ b.posts = a.posts

C4_FallbackChain ==
    /\ [](\A t \in TaskIds : C4_Inv(task[t]))
    /\ [][\A t \in TaskIds : C4_Step(task[t], task'[t])]_vars

C4_Witness ==
    /\ task[Main].pc = "failed" /\ task[Main].error.name = "DownloadError"
    /\ task[Main].attempts = Chain

C5_Inv(rec) ==
    /\ Len(rec.attempts) <= 4
    /\ rec.streams <= Len(rec.attempts)
    /\ rec.posts <= 1 + 3 * Len(rec.attempts)
    /\ (rec.op = "download_track" /\ rec.pc = "failed")
       => rec.error.name \in {"DownloadError", "DeezerLoginError",
                              "ClientResponseError", "KeyError"}

Members(rec) == 1 .. Len(rec.album_tracks)

C6_AlbumBuffersInTrackOrder ==
    \A p \in TaskIds :
        task[p].op = "download_album"
        => /\ task[p].pc = "done"
              => /\ Len(task[p].albumResult) = Len(task[p].album_tracks)
                 /\ \A i \in Members(task[p]) :
                      /\ task[1 + i].pc = "done"
                      /\ task[p].albumResult[i] = task[1 + i].buffer
                      /\ task[p].albumResult[i] # <<>>
                      /\ task[p].albumResult[i][1] = tracks[task[p].album_tracks[i]].id
           /\ (\A i \in Members(task[p]) : task[1 + i].pc = "done")
              => task[p].pc = "done"

C6_Witness ==
    /\ task[Main].op = "download_album" /\ task[Main].pc = "done"
    /\ task[Main].finished = <<2, 1>>
    /\ task[Main].albumResult[1] # task[Main].albumResult[2]

\* C7: as soon as one download of a download_album has failed, download_album
\* has failed with the error of the first download that failed, and holds no
\* result list.
FirstFailed(rec) ==
    LET failed == {k \in 1 .. Len(rec.finished) : task[1 + rec.finished[k]].pc = "failed"}
    IN  rec.finished[CHOOSE k \in failed : \A j \in failed : k <= j]

C7_OneFailureFailsTheAlbum ==
    \A p \in TaskIds :
        (task[p].op = "download_album"
         /\ \E i \in Members(task[p]) : task[1 + i].pc = "failed")
        => /\ task[p].pc = "failed"
           /\ task[p].error = task[1 + FirstFailed(task[p])].error
           /\ task[p].albumResult = <<>>

C7_Witness ==
    /\ task[Main].op = "download_album" /\ task[Main].pc = "failed"
    /\ task[Main].finished = <<2, 1>>
    /\ task[2].pc = "failed" /\ task[3].pc = "done"

\* C8: for each track id there is at most one Track record among the
\* references handed out by direct lookup and by album-track expansion, and a
\* step other than a hydration of that very record (a later resolution
\* included) leaves the extended fields of every record as they were.
OneRecordPerId ==
    \A r1 \in held, r2 \in held : tracks[r1].id = tracks[r2].id => r1 = r2

Hydrating(ref) ==
    /\ task[Main].entry = "add_more_tags"
    /\ task[Main].pc = "api_wait"
    /\ task[Main].track = ref

C8_Step ==
    \A ref \in held :
        \/ Hydrating(ref)
        \/ /\ tracks'[ref].md5_origin = tracks[ref].md5_origin
           /\ tracks'[ref].media_version = tracks[ref].media_version
           /\ tracks'[ref].id = tracks[ref].id

C8_OneRecordPerTrackId == []OneRecordPerId /\ [][C8_Step]_vars

\* A resolution performed after the hydration has returned the hydrated record.
C8_Witness ==
    /\ task[Main].entry \in {"init_via_track_id", "fetch_tracks"}
    /\ task[Main].pc = "done"
    /\ \E ref \in held :
          /\ tracks[ref].md5_origin # Unset
          /\ \/ task[Main].track = ref
             \/ \E i \in DOMAIN task[Main].album_tracks : task[Main].album_tracks[i] = ref

\* C9: download dispatches on the parsed URL.  A URL that begins with the
\* provider shape, scheme, optional www., host, optional locale segment, kind
\* and numeric id, runs the track path for exactly that id when the kind is
\* track and the album path for exactly that id when the kind is album; with
\* any other kind it fails with ActionNotSupported(kind); a string that does
\* not begin with the provider shape fails with InvalidUrlError(url).  In the
\* two error cases nothing is requested, no entity is made and no download is
\* started.
ProviderPrefixes ==
    {<<scheme>> \o www \o <<"deezer.com", "/">> :
        scheme \in {"https://", "http://"}, www \in {<<>>, <<"www.">>}}

Within(url, from, to, S) == \A k \in from .. to : url[k] \in S

\* Every reading of the start of url as the provider shape: b is where the path
\* starts, m where the kind starts, s the slash after the kind and e the last
\* digit of the numeric id.
ShapeReadings(url) ==
    LET n == Len(url)
        PathStarts == {b \in 1 .. n : SubSeq(url, 1, b - 1) \in ProviderPrefixes}
        KindStarts(b) ==
            {b} \cup {m \in b + 2 .. n : url[m - 1] = "/" /\ Within(url, b, m - 2, WordTokens)}
        Slashes(m) == {s \in m + 1 .. n : url[s] = "/" /\ Within(url, m, s - 1, WordTokens)}
        IdEnds(s) == {e \in s + 1 .. n : /\ Within(url, s + 1, e, DigitTokens)
                                         /\ At(url, e + 1) \notin DigitTokens}
    IN  UNION {UNION {UNION {
            {[mode |-> SubSeq(url, m, s - 1), id |-> int(SubSeq(url, s + 1, e))] :
                e \in IdEnds(s)} : s \in Slashes(m)} : m \in KindStarts(b)} : b \in PathStarts}

OnTrackPath(rec, id) ==
    /\ rec.op \in {"init_via_track_id", "download_track"}
    /\ rec.content_id = id
    /\ rec.posts >= 1
    /\ rec.pc = "lookup_wait" => rec.req = Request("public", "track", NoToken, id, NoUrl)
    /\ rec.op = "download_track" => tracks[rec.track].id = id

OnAlbumPath(rec, id) ==
    /\ rec.op \in {"init_via_album_id", "download_album"}
    /\ rec.content_id = id
    /\ rec.posts >= 1
    /\ rec.pc = "album_wait" => rec.req = Request("public", "album", NoToken, id, NoUrl)

RejectedWith(rec, error) ==
    /\ rec.pc = "failed"
    /\ rec.error = error
    /\ rec.posts = 0
    /\ held = {}
    /\ \A id \in TrackIds : track_cache[id] = 0
    /\ \A c \in Children : task[c].pc = "idle"

Min(a, b) == IF a < b THEN a ELSE b

FirstN(seq, k) == [i \in 1 .. k |-> seq[i]]

C10_SearchTruncates ==
    LET rec == task[Main]
        a == FirstN(rec.albums, Min(rec.albums_count, Len(rec.albums)))
        f == FirstN(rec.found, Min(rec.songs_limit - rec.albums_count, Len(rec.found)))
    IN  (rec.entry = "search_songs" /\ rec.pc = "done") =>
            /\ rec.searchResult.albums = [i \in DOMAIN a |-> ProjectAlbum(a[i])]
            /\ rec.searchResult.tracks = [i \in DOMAIN f |-> ProjectTrack(f[i])]

\* C11: a failure raised inside a progress callback never aborts or alters
\* the download: a step of a callback task changes nothing of download_track
\* but the task's own state, download_track fails only with an error of the
\* lookup, of the hydration or of the stream, and when it returns it returns
\* every byte the server sent, whichever callbacks have failed.
DownloadErrors == {"ClientResponseError", "KeyError", "DeezerLoginError", "DownloadError"}

CallbackMoved(a, b) ==
    /\ Len(b.scheduled) = Len(a.scheduled)
    /\ b.scheduled # a.scheduled

C11_Step ==
    CallbackMoved(task[Main], task'[Main]) =>
        /\ [task'[Main] EXCEPT !.scheduled = task[Main].scheduled] = task[Main]
        /\ UNCHANGED <<session_vars, entity_vars>>

C11_Inv ==
    task[Main].entry = "download_track_via_id" =>
        /\ task[Main].pc = "failed" => task[Main].error.name \in DownloadErrors
        /\ task[Main].pc = "done" =>
              /\ task[Main].error = NoError
              /\ task[Main].buffer = ServerAsset(task[Main].req.url)

C11_CallbackFailuresAreNotPropagated == []C11_Inv /\ [][C11_Step]_vars

\* The download has returned the whole body although every callback failed.
C11_Witness ==
    /\ task[Main].pc = "done"
    /\ Len(task[Main].scheduled) = 2
    /\ \A i \in DOMAIN task[Main].scheduled : task[Main].scheduled[i].state = "failed"
    /\ task[Main].buffer = ServerAsset(task[Main].req.url)

\* C12: a track resolution whose public-API answer holds an error payload
\* fails with DeezerApiError carrying the provider's error type, message and
\* code, and returns no Track.
C12_ErrorPayloadRaisesDeezerApiError ==
    LET rec == task[Main]
    IN  (rec.entry = "init_via_track_id" /\ "error" \in DOMAIN rec.info) =>
            /\ rec.pc = "failed"
            /\ rec.track = 0
            /\ rec.error.name = "DeezerApiError"
            /\ rec.error.arg = rec.info.error

\* C13: the stream URL is derived only from a track whose origin hash and
\* media version are set, in every attempt of a fallback chain and for every
\* coroutine downloading the track: a streaming GET in flight carries a URL
\* made of set fields, a streaming GET is sent only when the hydration of the
\* same attempt has returned, and a hydration that fails sends none.
Hydrated(obj) == obj.md5_origin # Unset /\ obj.media_version # Unset

C13_Inv ==
    \A t \in TaskIds :
        task[t].req.kind = "stream" =>
            /\ Hydrated(tracks[task[t].track])
            /\ task[t].req.url = get_stream_url(tracks[task[t].track], task[t].quality)

C13_Step ==
    \A t \in TaskIds :
        /\ task'[t].streams > task[t].streams =>
              /\ task[t].pc = "api_wait"
              /\ task'[t].apiResult.kind = "track"
              /\ Hydrated(tracks'[task[t].track])
        /\ (task[t].pc \in {"refresh_wait", "api_wait"} /\ task'[t].pc = "failed") =>
              /\ task'[t].streams = task[t].streams
              /\ task'[t].req.kind # "stream"

HexValue(c) == IF c < 58 THEN c - 48 ELSE c - 87

a2b_hex(hex) == [i \in 1 .. Len(hex) \div 2 |-> 16 * HexValue(hex[2 * i - 1]) + HexValue(hex[2 * i])]

decrypt(data) == [i \in 1 .. Len(data) |-> (data[i] + 256 - AES_KEY[((i - 1) % BLOCK) + 1]) % 256]

RECURSIVE DecimalValue(_)
DecimalValue(digits) ==
    IF digits = <<>> THEN 0
    ELSE 10 * DecimalValue(SubSeq(digits, 1, Len(digits) - 1)) + (digits[Len(digits)] - 48)

Zeros(k) == [i \in 1 .. k |-> 0]

C14_BufferLayout ==
    LET rec == task[Main]
        obj == tracks[rec.track]
        url == rec.req.url
        decimal == str(obj.id)
        fields == obj.md5_origin \o <<164>> \o <<CodeByte(rec.quality)>> \o <<164>>
                  \o decimal \o <<164>> \o obj.media_version
        content == md5hex(fields) \o <<164>> \o fields \o <<164>>
        buffer == decrypt(a2b_hex(url.hashs))
    IN  rec.entry = "get_stream_url" =>
            /\ DecimalValue(decimal) = obj.id
            /\ \A i \in DOMAIN decimal : decimal[i] \in 48 .. 57
            /\ decimal[1] # 48
            /\ Len(md5hex(fields)) = 32
            /\ Len(buffer) % 16 = 0
            /\ \E k \in 0 .. 15 : buffer = content \o Zeros(k)
            /\ url.host = <<obj.md5_origin[1]>>
            /\ \A rank \in Ranks \cup {0} :
                  get_stream_url([obj EXCEPT !.rank = rank], rec.quality) = url

\* A URL has been derived from a buffer that needed no padding.
C14_Witness ==
    /\ task[Main].entry = "get_stream_url"
    /\ Len(task[Main].req.url.hashs) = 2 * (32 + 1 + Len(tracks[1].md5_origin) + 1 + 1 + 1
                                              + Len(str(tracks[1].id)) + 1
                                              + Len(tracks[1].media_version) + 1)

\* C15: get_api entered for a method other than the identity lookup, with a
\* token that is not empty and at a time strictly before session_expires,
\* performs no refresh: it posts its own request at once, its only one, and
\* the token and the expiry stay as they are until it ends.
C15_Step(a, b) ==
    /\ (a.pc = "idle" /\ b.entry = "get_api" /\ b.method # METHOD_GET_USER
        /\ csrf_token # NoToken /\ now < session_expires)
       => /\ b.pc = "api_wait"
          /\ b.posts = 1
          /\ b.req = ApiRequest(b.method, csrf_token, b.content_id)
    /\ (a.entry = "get_api" /\ a.pc = "api_wait" /\ a.posts = 1)
       => /\ b.posts = 1
          /\ UNCHANGED <<csrf_token, session_expires>>

C15_NoRefreshWhileTokenIsLive == [][C15_Step(task[Main], task'[Main])]_vars

\* C16: _refresh_session changes the token state only when it succeeds: when
\* the identity lookup is answered with a user id other than 0, csrf_token
\* becomes the token of the answer and session_expires the time of that
\* moment plus 3600 seconds; when it is answered with user id 0, or the
\* request fails, both keep their values; no other step changes them, and
\* arl_token is never changed.
RefreshSucceeded(a, b) ==
    /\ a.pc = "refresh_wait"
    /\ b.pc # "failed"
    /\ b.user.kind = "user"
    /\ b.user.USER_ID # 0

C16_Step ==
    /\ arl_token' = arl_token
    /\ IF \E t \in TaskIds : RefreshSucceeded(task[t], task'[t])
       THEN \E t \in TaskIds :
               /\ RefreshSucceeded(task[t], task'[t])
               /\ csrf_token' = task'[t].user.checkForm
               /\ session_expires' = now + 3600
       ELSE UNCHANGED <<csrf_token, session_expires>>

C16_TokenStateChangesOnSuccessOnly == [](arl_token = ArlToken) /\ [][C16_Step]_vars

\* A refresh answered with user id 0 has failed and left the token of an
\* earlier refresh in place.
C16_Witness ==
    /\ task[Main].pc = "failed"
    /\ task[Main].user.kind = "user" /\ task[Main].user.USER_ID = 0
    /\ csrf_token # NoToken
    /\ session_expires = StartTime + 3600

\* C17: a track resolution for an id that is already in the cache returns the
\* cached instance without a public-API lookup and without changing any field
\* of the cached record; a lookup is made on a cache miss only.
C17_Step(a, b) ==
    /\ (a.pc = "idle" /\ b.entry = "init_via_track_id" /\ track_cache[b.content_id] # 0)
       => /\ b.posts = 0
          /\ b.pc = "done"
          /\ b.track = track_cache[b.content_id]
    /\ (a.entry = "init_via_track_id" /\ track_cache[a.content_id] # 0)
       => tracks' = tracks

C17_CachedResolutionIsLocal == [][C17_Step(task[Main], task'[Main])]_vars

\* C18: download_track hydrates the extended tags only of a track that is not
\* hydrated yet: a page-track request is posted for a track whose extended
\* fields are unset, never for one whose fields are set, so that a fallback
\* chain on an unhydrated track posts exactly one.
C18_Step(a, b) ==
    (b.op = "download_track" /\ b.posts > a.posts /\ b.pc = "api_wait"
     /\ b.req.method = METHOD_PAGE_TRACK)
    => ~Hydrated(tracks[b.track])

C18_HydratesOnlyWhenUnset == [][C18_Step(task[Main], task'[Main])]_vars

\* C19: with a declared content length other than zero download_track makes
\* no fallback and no further request, and returns the delivered chunks
\* concatenated in delivery order; with a progress callback one invocation is
\* scheduled per chunk, carrying the length of all chunks so far and the
\* declared content length, so the scheduled current values do not decrease
\* and the last equals the length of the returned buffer.
C19_Inv ==
    LET rec == task[Main]
        n == Len(rec.scheduled)
    IN  (rec.entry = "download_track_via_id" /\ rec.pc \in {"chunks", "done"}) =>
            /\ rec.total # 0
            /\ rec.total = Len(ServerAsset(rec.req.url))
            /\ rec.buffer \o rec.body = ServerAsset(rec.req.url)
            /\ rec.current = Len(rec.buffer)
            /\ rec.pc = "done" => rec.body = <<>>
            /\ ~rec.callback => n = 0
            /\ rec.callback =>
                  /\ n = 0 <=> rec.buffer = <<>>
                  /\ \A i \in 1 .. n : rec.scheduled[i].total = rec.total
                  /\ \A i \in 1 .. n - 1 : rec.scheduled[i].current <= rec.scheduled[i + 1].current
                  /\ n > 0 => rec.scheduled[n].current = Len(rec.buffer)

C19_Step(a, b) ==
    /\ (a.entry = "download_track_via_id" /\ a.pc = "chunks") =>
          /\ b.pc \in {"chunks", "done"}
          /\ b.attempts = a.attempts /\ b.streams = a.streams /\ b.posts = a.posts
    /\ (a.entry = "download_track_via_id" /\ a.pc = "stream_wait" /\ b.pc = "chunks") =>
          b.attempts = a.attempts /\ b.streams = a.streams
    /\ (a.pc = "chunks" /\ b.buffer # a.buffer) =>
          /\ Len(a.body) > Len(b.body)
          /\ b.buffer = a.buffer \o SubSeq(a.body, 1, Len(a.body) - Len(b.body))
          /\ a.callback =>
                /\ Len(b.scheduled) = Len(a.scheduled) + 1
                /\ b.scheduled[Len(b.scheduled)].current = Len(b.buffer)
                /\ \A i \in DOMAIN a.scheduled :
                      b.scheduled[i].current = a.scheduled[i].current

C19_ChunksAccumulateInOrder == []C19_Inv /\ [][C19_Step(task[Main], task'[Main])]_vars

\* A body delivered in two chunks has been returned, one callback per chunk.
C19_Witness ==
    /\ task[Main].pc = "done" /\ task[Main].callback
    /\ Len(task[Main].scheduled) = 2
    /\ task[Main].scheduled[1].current = 1
    /\ task[Main].scheduled[2].current = 2
    /\ Len(task[Main].buffer) = 2

OnTransport(a, b) ==
    /\ b.posts > a.posts
    /\ \/ b.pc = "search_wait"
       \/ b.req.kind \in {"api", "stream"}

C21_Step ==
    /\ \A t \in TaskIds :
           OnTransport(task[t], task'[t]) => http_session'.state = "open"
    /\ http_session.state = "open" /\ http_session'.state = "open"
       => http_session' = http_session
    /\ http_session'.made > http_session.made
       => /\ http_session.state \in {"none", "closed"}
          /\ http_session'.state = "open"
          /\ \E t \in TaskIds : task'[t] # task[t]

C22_ErrorEnvelopeFailsTheCall ==
    \A t \in TaskIds :
        task[t].apiResult.kind = "error" =>
            /\ task[t].pc = "failed"
            /\ task[t].error.name = "DeezerApiError"

\* C23: for all non-negative albums_count and songs_limit and all result
\* lists, search_songs returns no more than songs_limit entries, albums and
\* tracks together, and its tracks are the first of the tracks found, also
\* when albums_count is greater than songs_limit.
C23_SearchStaysWithinTheLimit ==
    LET rec == task[Main]
        out == rec.searchResult
    IN  (rec.entry = "search_songs" /\ rec.pc = "done") =>
            /\ Len(out.albums) + Len(out.tracks) <= rec.songs_limit
            /\ Len(out.tracks) <= Len(rec.found)
            /\ \A i \in DOMAIN out.tracks : out.tracks[i] = ProjectTrack(rec.found[i])

\* Coroutine t has returned from a resolution of id.
ResolvedTo(t, id) ==
    /\ task[t].entry = "init_via_track_id"
    /\ task[t].pc = "done"
    /\ task[t].content_id = id

Fetching(t, id) ==
    /\ task[t].entry = "init_via_track_id"
    /\ task[t].pc = "lookup_wait"
    /\ task[t].content_id = id

\* C24: resolutions of one track id that run concurrently each post their own
\* lookup, and however the answers are ordered every resolution that returns
\* returns the one Track the cache holds for the id: no two callers hold
\* different records of the id, and no second record of the id exists.
C24_Inv ==
    /\ OneRecordPerId
    /\ \A id \in TrackIds : \A t \in TaskIds :
           ResolvedTo(t, id) =>
               /\ task[t].track = track_cache[id]
               /\ tracks[task[t].track].id = id
               /\ \A u \in TaskIds : ResolvedTo(u, id) => task[u].track = task[t].track
    /\ \A t \in TaskIds : Fetching(t, task[t].content_id) => task[t].posts = 1

C24_ConcurrentResolutionsShareOneTrack == []C24_Inv

\* Three resolutions of the same id, each begun while the id was uncached,
\* so all three were fetching at once, have all returned; one Track exists.
C24_Witness ==
    /\ \A t \in TaskIds : ResolvedTo(t, 1) /\ task[t].uncached
    /\ Cardinality({r \in DOMAIN tracks : tracks[r].id # 0}) = 1

\* The labels get_quality and the fallback of download_track know.
KnownBitrates == {"FLAC", "MP3_320", "MP3_256", "MP3_128"}

\* The coroutine runs download_track for a label outside the known ones.
Unlabelled(rec) == rec.op = "download_track" /\ rec.requested \in Bitrates \ KnownBitrates

C25_Inv(rec) ==
    Unlabelled(rec) =>
        /\ rec.attempts = <<rec.requested>>
        /\ rec.quality = "1"
        /\ rec.streams <= 1
        /\ rec.pc = "stream_wait" => rec.req.url.quality = "1"
        /\ (rec.pc = "failed" /\ rec.error.name = "DownloadError")
           => (rec.streams = 1 /\ rec.error.arg = tracks[rec.track].id)

C25_Step(a, b) ==
    (Unlabelled(a) /\ a.pc = "stream_wait" /\ b # a)
    => \/ b.pc = "chunks" /\ b.total > 0
       \/ /\ b.pc = "failed"
          /\ b.error.name \in {"DownloadError", "ClientResponseError"}
          /\ Len(b.attempts) <= Len(a.attempts)
          /\ b.streams <= a.streams /\ b.posts <= a.posts

\* C25: a download_track called with a bitrate label other than FLAC, MP3_320,
\* MP3_256 and MP3_128, the absent bitrate included, makes one attempt only,
\* with quality code 1: its one streaming GET asks for quality 1, and when the
\* content length of that GET is zero the call fails with DownloadError at
\* once, with no further attempt and no further request.
C25_UnknownLabelIsTheLowestLevel ==
    /\ [](\A t \in TaskIds : C25_Inv(task[t]))
    /\ [][\A t \in TaskIds : C25_Step(task[t], task'[t])]_vars

\* The download with the absent bitrate has failed on a zero content length.
C25_Witness ==
    /\ task[Main].op = "download_track" /\ task[Main].requested = "None"
    /\ task[Main].pc = "failed" /\ task[Main].error.name = "DownloadError"
    /\ task[Main].attempts = <<"None">> /\ task[Main].streams = 1
    /\ task[Main].quality = "1"

====
